---- MODULE Spec2Model ----
(***************************************************************************)
(* Model of clips/environment.py: the Environment class, the process-wide  *)
(* ENVIRONMENT_DATA registry it maintains, and the python_function         *)
(* callback the native engine calls for (python-function name arg ...).    *)
(* The native engine is an opaque library: each native call is an input    *)
(* (its return code, the value it produced) drawn from a small set.        *)
(***************************************************************************)
EXTENDS Naturals, Integers, Sequences, FiniteSets, TLC

\* ---------------------------------------------------------------- bounds
MaxEnvs == 2        \* native environment handles that can be allocated
MaxArgs == 3        \* arguments of one (python-function ...) call

Handles == 1..MaxEnvs

\* ---------------------------------------------------------------- values
Symbol(s) == [type |-> "SYMBOL", val |-> s]
Integer(s) == [type |-> "INTEGER", val |-> s]
Str(s) == [type |-> "STRING", val |-> s]
None == [type |-> "NONE", val |-> ""]
\* the DATA_OBJECT handed in by the engine, not (yet) written by the binding
Unset == [type |-> "UNSET", val |-> ""]

\* values the engine passes as arguments of python-function / yields from eval
Values == {Symbol("f"), Symbol("g"), Integer("1")}
\* values used for the arguments after the first
RestValues == {Symbol("g"), Integer("1")}

RECURSIVE SeqsUpTo(_, _)
SeqsUpTo(S, n) ==
    IF n = 0 THEN {<<>>}
    ELSE LET shorter == SeqsUpTo(S, n - 1)
         IN  shorter \cup {Append(s, v) : s \in {t \in shorter : Len(t) = n - 1}, v \in S}

\* argument lists of a (python-function ...) call: none, a first argument that
\* is not a symbol, or a symbol followed by up to MaxArgs - 1 further values
ArgLists ==
    {<<>>} \cup {<<v>> : v \in {w \in Values : w.type # "SYMBOL"}}
           \cup {<<v>> \o rest : v \in {w \in Values : w.type = "SYMBOL"},
                                 rest \in SeqsUpTo(RestValues, MaxArgs - 1)}

\* return codes of the native calls: EnvBload/EnvSave/EnvBsave/EnvBatchStar/
\* EnvBuild/EnvEval answer 1 or 0, EnvLoad also -1 (opened, but parse error)
NativeRet == {0, 1}
LoadRet == {-1, 0, 1}

\* ---------------------------------------------------------------- callables
\* A Python callable: its __name__ and what calling it does.
Callables ==
    { [name |-> "f", body |-> "first"],
      [name |-> "f", body |-> "raise"],
      [name |-> "g", body |-> "exit"] }

Names == {function.name : function \in Callables}

NoCallable == [name |-> "", body |-> ""]

NoExc == [cls |-> "", msg |-> "", isException |-> FALSE]

\* function(*arguments): either a return value or a raised exception.
\* isException: the raised object is an instance of Exception (ValueError is,
\* SystemExit derives from BaseException only).
Call(function, arguments) ==
    CASE function.body = "first" ->
            [raised |-> FALSE, exc |-> NoExc,
             ret |-> IF Len(arguments) > 0 THEN arguments[1] ELSE None]
      [] function.body = "raise" ->
            [raised |-> TRUE, ret |-> None,
             exc |-> [cls |-> "ValueError", msg |-> "bad", isException |-> TRUE]]
      [] OTHER ->
            [raised |-> TRUE, ret |-> None,
             exc |-> [cls |-> "SystemExit", msg |-> "bye", isException |-> FALSE]]

\* ---------------------------------------------------------------- state
VARIABLES
    envs,               \* handles of the live Environment objects
    ENVIRONMENT_DATA,   \* handle -> EnvData(user_functions, error_router)
    registered,         \* history: per live Environment and name, the callable
                        \* most recently passed to define_function
    last                \* the most recent operation and what it produced

vars == <<envs, ENVIRONMENT_DATA, registered, last>>

Op(op, env, natives, rets, outcome, value) ==
    [op |-> op, env |-> env, natives |-> natives, rets |-> rets,
     outcome |-> outcome, value |-> value,
     args |-> <<>>, invoked |-> NoCallable, arguments |-> <<>>, held |-> 0,
     replaced |-> NoCallable]

NoneRegistered == [n \in Names |-> NoCallable]

Init ==
    /\ envs = {}
    /\ ENVIRONMENT_DATA = <<>>
    /\ registered = [h \in Handles |-> NoneRegistered]
    /\ last = Op("start", 0, <<>>, <<>>, "ok", Unset)

\* ---------------------------------------------------------------- lifecycle
ErrorRouter(name, priority) == [name |-> name, priority |-> priority]

EnvData(user_functions, error_router) ==
    [user_functions |-> user_functions, error_router |-> error_router]

\* Environment.__init__: ENVIRONMENT_DATA[self._env] = EnvData({}, error_router)
Environment__init__(reg, env) ==
    [h \in DOMAIN reg \cup {env} |->
        IF h = env THEN EnvData(<<>>, ErrorRouter("python-error-router", 40))
        ELSE reg[h]]

\* Environment.__del__ without the del statement
Environment__del__keep(reg, env) == reg

\* Environment.__del__: del ENVIRONMENT_DATA[self._env]; a KeyError is swallowed
Environment__del__(reg, env) ==
    IF env \in DOMAIN reg THEN [h \in DOMAIN reg \ {env} |-> reg[h]] ELSE reg

\* number of callback bindings the registry holds for a handle
Bound(reg, env) ==
    IF env \in DOMAIN reg THEN Cardinality(DOMAIN reg[env].user_functions) ELSE 0

\* lib.CreateEnvironment() hands out any handle not currently allocated
Create(env) ==
    /\ env \notin envs
    /\ envs' = envs \cup {env}
    /\ ENVIRONMENT_DATA' = Environment__init__(ENVIRONMENT_DATA, env)
    /\ registered' = [registered EXCEPT ![env] = NoneRegistered]
    /\ last' = Op("create", env, <<"CreateEnvironment", "define_function">>,
                  <<>>, "ok", Unset)

Destroy(env) ==
    /\ env \in envs
    /\ envs' = envs \ {env}
    /\ ENVIRONMENT_DATA' = Environment__del__(ENVIRONMENT_DATA, env)
    /\ registered' = [registered EXCEPT ![env] = NoneRegistered]
    /\ last' = [Op("destroy", env, <<"DestroyEnvironment">>, <<>>, "ok", Unset)
                 EXCEPT !.held = Bound(ENVIRONMENT_DATA, env)]

\* ---------------------------------------------------------------- natives
Native(natives, rets, outcome, value) ==
    [natives |-> natives, rets |-> rets, outcome |-> outcome, value |-> value]

\* Environment.load attempting the text load unconditionally
load_always_text(bload, eload) ==
    Native(<<"EnvBload", "EnvLoad">>, <<bload, eload>>,
           IF bload # 1 /\ eload # 1 THEN "CLIPSError" ELSE "ok", Unset)

\* Environment.load: EnvBload first, EnvLoad only if that did not return 1
load(bload, eload) ==
    IF bload # 1
    THEN IF eload # 1
         THEN Native(<<"EnvBload", "EnvLoad">>, <<bload, eload>>, "CLIPSError", Unset)
         ELSE Native(<<"EnvBload", "EnvLoad">>, <<bload, eload>>, "ok", Unset)
    ELSE Native(<<"EnvBload">>, <<bload>>, "ok", Unset)

\* Environment.save checking the return code of the text save only
save_unchecked_binary(binary, ret) ==
    Native(<<IF binary THEN "EnvBsave" ELSE "EnvSave">>, <<ret>>,
           IF ~binary /\ ret = 0 THEN "CLIPSError" ELSE "ok", Unset)

\* Environment.save: EnvBsave when binary else EnvSave; raises when ret == 0
save(binary, ret) ==
    Native(<<IF binary THEN "EnvBsave" ELSE "EnvSave">>, <<ret>>,
           IF ret = 0 THEN "CLIPSError" ELSE "ok", Unset)

\* Environment.batch_star: raises when EnvBatchStar(...) != 1
batch_star(ret) ==
    Native(<<"EnvBatchStar">>, <<ret>>, IF ret # 1 THEN "CLIPSError" ELSE "ok", Unset)

\* Environment.build: raises when EnvBuild(...) != 1
build(ret) ==
    Native(<<"EnvBuild">>, <<ret>>, IF ret # 1 THEN "CLIPSError" ELSE "ok", Unset)

\* Environment.eval: raises when EnvEval(...) != 1, else returns data.value,
\* the value the engine wrote through data.byref
eval(ret, data) ==
    IF ret # 1 THEN Native(<<"EnvEval">>, <<ret>>, "CLIPSError", Unset)
    ELSE Native(<<"EnvEval">>, <<ret>>, "ok", data)

Done(op, env, r) == Op(op, env, r.natives, r.rets, r.outcome, r.value)

Load(env) ==
    /\ env \in envs
    /\ \E bload \in NativeRet, eload \in LoadRet :
          last' = Done("load", env, load(bload, eload))
    /\ UNCHANGED <<envs, ENVIRONMENT_DATA, registered>>

Save(env) ==
    /\ env \in envs
    /\ \E binary \in BOOLEAN, ret \in NativeRet :
          last' = Done("save", env, save(binary, ret))
    /\ UNCHANGED <<envs, ENVIRONMENT_DATA, registered>>

BatchStar(env) ==
    /\ env \in envs
    /\ \E ret \in NativeRet : last' = Done("batch_star", env, batch_star(ret))
    /\ UNCHANGED <<envs, ENVIRONMENT_DATA, registered>>

Build(env) ==
    /\ env \in envs
    /\ \E ret \in NativeRet : last' = Done("build", env, build(ret))
    /\ UNCHANGED <<envs, ENVIRONMENT_DATA, registered>>

Eval(env) ==
    /\ env \in envs
    /\ \E ret \in NativeRet, data \in Values :
          last' = [Done("eval", env, eval(ret, data)) EXCEPT !.args = <<data>>]
    /\ UNCHANGED <<envs, ENVIRONMENT_DATA, registered>>

\* Environment.reset: lib.EnvReset(self._env), nothing else
Reset(env) ==
    /\ env \in envs
    /\ last' = Op("reset", env, <<"EnvReset">>, <<>>, "ok", Unset)
    /\ UNCHANGED <<envs, ENVIRONMENT_DATA, registered>>

\* Environment.clear: lib.EnvClear(self._env), nothing else
Clear(env) ==
    /\ env \in envs
    /\ last' = Op("clear", env, <<"EnvClear">>, <<>>, "ok", Unset)
    /\ UNCHANGED <<envs, ENVIRONMENT_DATA, registered>>

\* ---------------------------------------------------------------- callbacks
Bind(user_functions, function) ==
    [n \in DOMAIN user_functions \cup {function.name} |->
        IF n = function.name THEN function ELSE user_functions[n]]

\* define_function keeping an existing binding (dict.setdefault)
define_function_keep_first(reg, env, function) ==
    [reg EXCEPT ![env].user_functions =
        IF function.name \in DOMAIN @ THEN @ ELSE Bind(@, function)]

\* define_function writing into one mapping shared by all environments
define_function_shared(reg, env, function) ==
    [h \in DOMAIN reg |->
        [reg[h] EXCEPT !.user_functions = Bind(@, function)]]

\* Environment.define_function:
\* ENVIRONMENT_DATA[self._env].user_functions[function.__name__] = function
define_function(reg, env, function) ==
    [reg EXCEPT ![env].user_functions = Bind(@, function)]

DefineFunction(env, function) ==
    /\ env \in envs
    /\ IF env \in DOMAIN ENVIRONMENT_DATA
       THEN /\ ENVIRONMENT_DATA' = define_function(ENVIRONMENT_DATA, env, function)
            /\ registered' = [registered EXCEPT ![env][function.name] = function]
            /\ last' = [Op("define_function", env, <<>>, <<>>, "ok", Unset)
                         EXCEPT !.replaced = registered[env][function.name],
                                !.held = Bound(ENVIRONMENT_DATA, env)]
       ELSE /\ last' = Op("define_function", env, <<>>, <<>>, "KeyError", Unset)
            /\ UNCHANGED <<ENVIRONMENT_DATA, registered>>
    /\ UNCHANGED envs

\* lib.EnvArgTypeCheck(env, b'python-function', position, type, temp.byref) == 1
EnvArgTypeCheck(args, position, type) ==
    Len(args) >= position /\ args[position].type = type

\* for index in range(first, argnum + 1): EnvRtnUnknown(index); append(temp.value)
RtnArguments(args, first) ==
    [i \in 1..(IF Len(args) + 1 >= first THEN Len(args) + 1 - first ELSE 0) |->
        args[i + first - 1]]

\* str("%s: %s" % (error.__class__.__name__, error))
Diagnostic(cls, msg) == Str(cls \o ": " \o msg)

Returned(value, invoked, arguments) ==
    [outcome |-> "ok", value |-> value, invoked |-> invoked, arguments |-> arguments]

\* an exception leaving python_function: data.value is never assigned
Escaped(cls, invoked, arguments) ==
    [outcome |-> cls, value |-> Unset, invoked |-> invoked, arguments |-> arguments]

\* data.value = ret if ret is not None else clips.common.Symbol('nil')
DataValue(ret) == IF ret = None THEN Symbol("nil") ELSE ret

\* python_function without the try/except around the call
python_function_no_except(reg, env, args) ==
    IF ~EnvArgTypeCheck(args, 1, "SYMBOL") THEN Escaped("RuntimeError", NoCallable, <<>>)
    ELSE LET funcname == args[1].val
             arguments == RtnArguments(args, 2)
             user_functions == reg[env].user_functions
         IN  IF funcname \notin DOMAIN user_functions
             THEN Escaped("KeyError", NoCallable, arguments)
             ELSE LET function == user_functions[funcname]
                      r == Call(function, arguments)
                  IN  IF r.raised THEN Escaped(r.exc.cls, function, arguments)
                      ELSE Returned(DataValue(r.ret), function, arguments)

\* python_function collecting the arguments from index 1 (the function name)
python_function_from_one(reg, env, args) ==
    IF ~EnvArgTypeCheck(args, 1, "SYMBOL") THEN Escaped("RuntimeError", NoCallable, <<>>)
    ELSE LET funcname == args[1].val
             arguments == RtnArguments(args, 1)
             user_functions == reg[env].user_functions
         IN  IF funcname \notin DOMAIN user_functions
             THEN Returned(Diagnostic("KeyError", "'" \o funcname \o "'"),
                           NoCallable, arguments)
             ELSE LET function == user_functions[funcname]
                      r == Call(function, arguments)
                  IN  IF r.raised
                      THEN IF r.exc.isException
                           THEN Returned(Diagnostic(r.exc.cls, r.exc.msg),
                                         function, arguments)
                           ELSE Escaped(r.exc.cls, function, arguments)
                      ELSE Returned(DataValue(r.ret), function, arguments)

\* python_function(env, data_object): the first argument must be a SYMBOL, else
\* RuntimeError; arguments 2..argnum are passed on; `except Exception` turns a
\* failed lookup or call into a string; other BaseExceptions leave the function
python_function(reg, env, args) ==
    IF ~EnvArgTypeCheck(args, 1, "SYMBOL") THEN Escaped("RuntimeError", NoCallable, <<>>)
    ELSE LET funcname == args[1].val
             arguments == RtnArguments(args, 2)
             user_functions == reg[env].user_functions
         IN  IF funcname \notin DOMAIN user_functions
             THEN Returned(Diagnostic("KeyError", "'" \o funcname \o "'"),
                           NoCallable, arguments)
             ELSE LET function == user_functions[funcname]
                      r == Call(function, arguments)
                  IN  IF r.raised
                      THEN IF r.exc.isException
                           THEN Returned(Diagnostic(r.exc.cls, r.exc.msg),
                                         function, arguments)
                           ELSE Escaped(r.exc.cls, function, arguments)
                      ELSE Returned(DataValue(r.ret), function, arguments)

\* the engine evaluates (python-function args...) in a live environment
PythonFunction(env, args) ==
    /\ env \in envs
    /\ \E r \in {python_function(ENVIRONMENT_DATA, env, args)} :
           last' = [op |-> "python_function", env |-> env,
                    natives |-> <<"EnvRtnArgCount", "EnvArgTypeCheck">>,
                    rets |-> <<>>, outcome |-> r.outcome, value |-> r.value,
                    args |-> args, invoked |-> r.invoked, arguments |-> r.arguments,
                    held |-> 0, replaced |-> NoCallable]
    /\ UNCHANGED <<envs, ENVIRONMENT_DATA, registered>>

\* ---------------------------------------------------------------- system
\* Environments, their callback registry and the callbacks the engine makes
Next ==
    \/ \E env \in Handles : Create(env)
    \/ \E env \in Handles : Destroy(env)
    \/ \E env \in Handles : Reset(env)
    \/ \E env \in Handles : Clear(env)
    \/ \E env \in Handles, function \in Callables : DefineFunction(env, function)
    \/ \E env \in Handles, args \in ArgLists : PythonFunction(env, args)

Spec == Init /\ [][Next]_vars

\* The methods an application calls on its Environments
ApiNext ==
    \/ \E env \in Handles : Create(env)
    \/ \E env \in Handles : Destroy(env)
    \/ \E env \in Handles : Load(env)
    \/ \E env \in Handles : Save(env)
    \/ \E env \in Handles : BatchStar(env)
    \/ \E env \in Handles : Build(env)
    \/ \E env \in Handles : Eval(env)
    \/ \E env \in Handles : Reset(env)
    \/ \E env \in Handles : Clear(env)
    \/ \E env \in Handles, function \in Callables : DefineFunction(env, function)

ApiSpec == Init /\ [][ApiNext]_vars

\* ---------------------------------------------------------------- properties
IsCallback == last.op = "python_function"
Invoked == IsCallback /\ last.invoked # NoCallable
UserFunctions(env) == ENVIRONMENT_DATA[env].user_functions

C2_LastWriteWins ==
    /\ \A env \in envs :
          /\ env \in DOMAIN ENVIRONMENT_DATA
          /\ \A n \in Names :
                IF registered[env][n] = NoCallable
                THEN n \notin DOMAIN UserFunctions(env)
                ELSE /\ n \in DOMAIN UserFunctions(env)
                     /\ UserFunctions(env)[n] = registered[env][n]
    /\ last.op = "define_function" => last.outcome = "ok"
    /\ Invoked => last.invoked = registered[last.env][last.args[1].val]

C2_Witness ==
    /\ last.op = "define_function"
    /\ last.replaced # NoCallable
    /\ UserFunctions(last.env)[last.replaced.name] # last.replaced
    /\ last.held = 2

\* C3 (as stated): a callback whose name has no binding in its Environment
\* fails with a NotFound error and hands no result value to the engine.
C3_UnknownNameRaisesNotFound ==
    (/\ IsCallback
     /\ EnvArgTypeCheck(last.args, 1, "SYMBOL")
     /\ last.args[1].val \notin DOMAIN UserFunctions(last.env))
        => (last.outcome = "NotFound" /\ last.value = Unset)

C5_BindingsScopedToEnvironment ==
    /\ [](Invoked => \E n \in Names : last.invoked = registered[last.env][n])
    /\ [][\A b \in envs \cap envs' :
            (last'.op \in {"create", "define_function", "destroy"} /\ last'.env # b)
                => ENVIRONMENT_DATA'[b] = ENVIRONMENT_DATA[b]]_vars

C5_Witness ==
    /\ Invoked
    /\ \E a \in envs \ {last.env} :
          /\ last.invoked.name \in DOMAIN UserFunctions(a)
          /\ UserFunctions(a)[last.invoked.name] # last.invoked

\* C6: save, batch_star, build and eval make one native call and raise
\* CLIPSError exactly when it does not report success (1); on success they
\* return normally, eval with the value the engine produced.
C6_NativeFailureRaises ==
    last.op \in {"save", "batch_star", "build", "eval"} =>
        /\ Len(last.natives) = 1 /\ Len(last.rets) = 1
        /\ last.outcome = "CLIPSError" <=> last.rets[1] # 1
        /\ last.rets[1] = 1 => last.outcome = "ok"
        /\ (last.op = "eval" /\ last.rets[1] = 1) => last.value = last.args[1]
        /\ last.outcome = "CLIPSError" => last.value = Unset

C6_Witness ==
    /\ last.op = "save"
    /\ last.natives = <<"EnvBsave">>
    /\ last.rets = <<0>>
    /\ last.outcome = "CLIPSError"

\* C9: a callback whose first argument names a bound callable invokes exactly
\* that callable with arguments 2..n in their original order, and when the
\* callable returns, the engine receives its return value, nil for None.
C9_CallsBoundFunctionWithRemainingArguments ==
    /\ (/\ IsCallback
        /\ EnvArgTypeCheck(last.args, 1, "SYMBOL")
        /\ last.args[1].val \in DOMAIN UserFunctions(last.env)) => Invoked
    /\ Invoked =>
          /\ last.invoked = UserFunctions(last.env)[last.args[1].val]
          /\ last.arguments = Tail(last.args)
          /\ LET r == Call(last.invoked, Tail(last.args))
             IN  ~r.raised =>
                    /\ last.outcome = "ok"
                    /\ last.value = (IF r.ret = None THEN Symbol("nil") ELSE r.ret)

C9_Witness ==
    /\ Invoked
    /\ last.invoked.body = "first"
    /\ Len(last.args) = 3
    /\ last.args[2] # last.args[3]
    /\ last.value = last.args[2]

\* C10: load calls EnvBload first and EnvLoad only if EnvBload did not
\* succeed, and raises CLIPSError exactly when both failed.
C10_LoadBinaryThenText ==
    last.op = "load" =>
        /\ Len(last.natives) = Len(last.rets)
        /\ last.natives[1] = "EnvBload"
        /\ Len(last.natives) = 2 <=> last.rets[1] # 1
        /\ Len(last.natives) = 2 => last.natives[2] = "EnvLoad"
        /\ last.outcome = "CLIPSError" <=>
              (Len(last.rets) = 2 /\ last.rets[1] # 1 /\ last.rets[2] # 1)
        /\ last.outcome \in {"ok", "CLIPSError"}

C10_Witness ==
    /\ last.op = "load"
    /\ last.rets = <<0, 1>>
    /\ last.outcome = "ok"

====
